---- MODULE Spec2Model ----
(***************************************************************************)
(* StreamLine::WaitGroup (src/include/WaitGroup.h), the gates of           *)
(* StreamLine::Locks (src/include/Latch.h, Barrier.h) and the Task wrapper *)
(* (src/unnamed/part_000) as state machines.                               *)
(*                                                                         *)
(* One WaitGroup `wg` is created by the thread Owner and shared with the   *)
(* other threads.  Every thread runs the public operations of the class    *)
(* step by step: one action per atomic access (an atomic load / store /    *)
(* read-modify-write, a mutex acquisition, a condition-variable park or    *)
(* notify).  A step that touches only state no other thread can write at  *)
(* that point (the immutable `owner`, the owner-written `waiting`, data    *)
(* guarded by the held mutex) is merged with its neighbour, and so is the  *)
(* acquisition of the mutex with the first access made under it and its    *)
(* release with the last one.  Done's push_back is the exception: taking   *)
(* the mutex and appending are two steps, because HasFinishedSuccessfully  *)
(* reads `collected` without the mutex.                                    *)
(*                                                                         *)
(* `count` is std::atomic<unsigned int>.  The model holds its 32-bit       *)
(* pattern read as a two's-complement value: the unsigned value u and the  *)
(* modelled value s satisfy u = s mod 2^32, so s = -1 is 0xFFFFFFFF.  The  *)
(* tests the code makes (== 0, fetch_sub(..) == 1) and the conversions     *)
(* between `count` and the int `def_count` are the identity on the         *)
(* pattern.                                                                *)
(***************************************************************************)
EXTENDS Integers, Sequences, FiniteSets, TLC

VARIABLES
    count,        \* WaitGroup::count (bit pattern, see above)
    waiting,      \* WaitGroup::waiting
    collected,    \* WaitGroup::collected
    def_count,    \* WaitGroup::def_count (the snapshot Reset restores)
    mtx,          \* WaitGroup::mtx: "free" or the thread holding it
    new_wg,       \* the WaitGroup Transfer builds and returns
    pc,           \* per thread: where it is inside the operation it runs
    op,           \* per thread: the operation it is running, or "none"
    ex,           \* per thread: the `ex` argument of its running Done
    last,         \* the latest call or outcome of the owner's operations
                  \* and Transfer: who, what operation, how
    delivered,    \* the records inside the last CongregatedException thrown
    calls,        \* number of operations the owner has started
    dones,        \* number of Done calls the workers have made
    attached,     \* history: records pushed to `collected` in this epoch
    decremented,  \* history: records whose Done has decremented, this epoch
    fresh,        \* history: the running Done carries a record and no
                  \*          Reset/Transfer cleared `collected` since it began
    epoch,        \* history: number of successful Resets
    added,        \* history: `count` right after the increment of the
                  \*          running Add, 0 when no Add is running
    tpre,         \* history: the source's fields when Transfer was called
                  \*          (kept while tquiet holds)
    tquiet,       \* history: no other thread ran while Transfer did
    variant,      \* the class of the gate (Latch.h, Barrier.h), or "none"
    ready,        \* the gate's `ready`
    gmtx,         \* the gate's `mtx`: "free" or the thread holding it
    gpc,          \* per gate thread: where it is inside its operation
    gop,          \* per gate thread: the operation it is running, or "none"
    gi,           \* per gate thread: the spin loop's `i`
    spinCount,    \* the gate's `spinCount` (hybrid classes)
    gn,           \* per gate thread: Wait's `currentSpinCount` while it spins
    glast,        \* the latest call or return of a gate operation
    gcalls,       \* number of gate operations called
    signals,      \* history: number of stores of true Signal has made
    taskpc,       \* per Task: where its `task` lambda is
    runner,       \* per Task: the thread that runs the lambda
    result,       \* per Task: the state of its promise `result`
    abpc,         \* per Task: where its Abandon is
    abthread,     \* per Task: the thread that called Abandon
    taskdones     \* history, per Task: Done calls made for it

wgvars == <<count, waiting, collected, def_count, new_wg>>
histvars == <<attached, decremented, fresh, epoch, added>>
budget == <<calls, dones>>
gvars == <<variant, ready, gmtx, gpc, gop, gi, spinCount, gn, glast, gcalls,
           signals>>
tvars == <<taskpc, runner, result, abpc, abthread, taskdones>>
vars == <<count, waiting, collected, def_count, mtx, new_wg, pc, op, ex, last,
          delivered, calls, dones, attached, decremented, fresh, epoch, added, tpre,
          tquiet, gvars, tvars>>

(***************************************************************************)
(* Threads, failure records, bounds.                                       *)
(***************************************************************************)
\* The thread that constructed wg.
Owner == "o"
\* Threads that were handed wg to report completion: they call Done only.
Workers == {"w1", "w2"}
\* A thread that is neither.  Its calls are not counted: each fails at once
\* and changes nothing, or is the one Transfer that builds new_wg.
Outsider == "x"
Threads == {Owner, Outsider} \cup Workers

\* Largest argument passed to Add.
MaxAdd == 1
\* Number of operations the owner starts.
OwnerCalls == 4
\* Number of Done calls the workers make between them.
WorkerCalls == 2
\* Number of operations the owner starts where Transfer is among them.
TransferCalls == 2

AddArgs == (-1) .. MaxAdd

NoEx == "none"
Records == {"E1", "E2"}
\* The exception_ptr a thread passes to Done when it reports a failure.
Rec(t) == IF t = "w1" THEN "E1" ELSE "E2"

ZeroBag == [r \in Records |-> 0]
BagOf(s) == [r \in Records |-> Cardinality({i \in DOMAIN s : s[i] = r})]
BagAdd(b, r) == [b EXCEPT ![r] = @ + 1]
BagLeq(a, b) == \A r \in Records : a[r] <= b[r]

\* A default-constructed WaitGroup nobody owns yet (Transfer's `new_wg`
\* before line 147 runs).
NoWG == [owner |-> "none", count |-> 0, collected |-> <<>>, def_count |-> 0,
         waiting |-> FALSE]
NoPre == [count |-> 0, collected |-> <<>>, def_count |-> 0]

TransferBusy(t) == \E u \in Threads \ {t} : op[u] = "Transfer"

(***************************************************************************)
(* Bookkeeping shared by the actions.                                      *)
(***************************************************************************)
Event(t, name, how) == [who |-> t, what |-> name, how |-> how]

\* A call by another thread ends the quiet of a running Transfer.
Disturb(t) ==
    /\ tquiet' = (tquiet /\ ~TransferBusy(t))
    /\ tpre' = IF tquiet' THEN tpre ELSE NoPre

\* Thread t, idle, calls one of the owner's operations.
Call(t) ==
    /\ pc[t] = "idle"
    /\ t = Owner => calls < OwnerCalls
    /\ calls' = IF t = Owner THEN calls + 1 ELSE calls
    /\ UNCHANGED dones

\* The operation `name` that t called fails its entry checks with error r.
Refuse(t, name, r) ==
    /\ last' = Event(t, name, r)
    /\ UNCHANGED <<pc, op>>

\* The operation `name` that t called passes its entry checks.
Begin(t, name, p) ==
    /\ pc' = [pc EXCEPT ![t] = p]
    /\ op' = [op EXCEPT ![t] = name]
    /\ last' = Event(t, name, "started")

\* Thread t's operation ends with outcome r (a return or a throw).
Finish(t, r) ==
    /\ pc' = [pc EXCEPT ![t] = "idle"]
    /\ op' = [op EXCEPT ![t] = "none"]
    /\ last' = Event(t, op[t], r)

\* An inner step of thread t's operation.
Step(t, from, to) ==
    /\ pc[t] = from
    /\ pc' = [pc EXCEPT ![t] = to]
    /\ UNCHANGED <<op, last, budget, tpre, tquiet>>

WGInit ==
    /\ count = 0
    /\ waiting = FALSE
    /\ collected = <<>>
    /\ def_count = 0
    /\ mtx = "free"
    /\ new_wg = NoWG
    /\ pc = [t \in Threads |-> "idle"]
    /\ op = [t \in Threads |-> "none"]
    /\ ex = [t \in Threads |-> NoEx]
    /\ last = Event("none", "none", "none")
    /\ delivered = <<>>
    /\ calls = 0
    /\ dones = 0
    /\ attached = ZeroBag
    /\ decremented = ZeroBag
    /\ fresh = [t \in Threads |-> FALSE]
    /\ epoch = 0
    /\ added = 0
    /\ tpre = NoPre
    /\ tquiet = TRUE

(***************************************************************************)
(* The gates of Latch.h and Barrier.h: one gate, of class `variant`,       *)
(* shared by the threads GateThreads.  The three latches and the three     *)
(* barriers have the same members; a class waits by spinning on `ready`,   *)
(* by parking on `cv` under `mtx`, or by spinning spinCount times and then *)
(* parking.                                                                *)
(***************************************************************************)
GateThreads == {"g1", "g2", "g3"}
\* Number of gate operations the threads call between them.
GateCalls == 4
\* Largest value of spinCount: the value a gate is built with (100 in the
\* code) and the largest argument passed to SetSpinCount.
SpinCount == 2

Latches == {"SpinLatch", "Latch", "HybridLatch"}
Barriers == {"SpinBarrier", "Barrier", "HybridBarrier"}
Variants == Latches \cup Barriers
NoGate == "none"

Mechanism(v) ==
    IF v \in {"SpinLatch", "SpinBarrier"} THEN "spin"
    ELSE IF v \in {"Latch", "Barrier"} THEN "block"
    ELSE "hybrid"

\* A gate of class v after construction: ready{false}, nobody inside.
GateInit(v) ==
    /\ variant = v
    /\ ready = FALSE
    /\ gmtx = "free"
    /\ gpc = [t \in GateThreads |-> "idle"]
    /\ gop = [t \in GateThreads |-> "none"]
    /\ gi = [t \in GateThreads |-> 0]
    /\ spinCount = SpinCount
    /\ gn = [t \in GateThreads |-> 0]
    /\ glast = Event("none", "none", "none")
    /\ gcalls = 0
    /\ signals = 0

\* The Tasks of part_000, each bound to wg.
Tasks == {"T1", "T2"}

\* The Tasks in state p: "none" (no Task is built) or "scheduled" (built,
\* Execute called, the lambda not yet invoked).
TaskInit(p) ==
    /\ taskpc = [k \in Tasks |-> p]
    /\ runner = [k \in Tasks |-> "none"]
    /\ result = [k \in Tasks |-> "empty"]
    /\ abpc = [k \in Tasks |-> "none"]
    /\ abthread = [k \in Tasks |-> "none"]
    /\ taskdones = [k \in Tasks |-> 0]

\* A WaitGroup after construction; no gate and no Task is in use.
Init == WGInit /\ GateInit(NoGate) /\ TaskInit("none")

(***************************************************************************)
(* Add(int n)                                                              *)
(***************************************************************************)
\* Mutant: the waiting check is made before the owner check.
AddEntry_WaitingFirst(t) ==
    IF waiting THEN "useafterwait"
    ELSE IF t # Owner THEN "ownership"
    ELSE "go"

\* Mutant: the waiting check is missing.
AddEntry_NoWaitingCheck(t) == IF t # Owner THEN "ownership" ELSE "go"

\* The two guards of Add, in the order the code makes them.
AddEntry(t) ==
    IF t # Owner THEN "ownership"
    ELSE IF waiting THEN "useafterwait"
    ELSE "go"

\* Owner check, waiting check and count.fetch_add(n).
Add(t, n) ==
    /\ Call(t)
    /\ Disturb(t)
    /\ IF AddEntry(t) = "go"
       THEN /\ count' = count + n
            /\ added' = count + n
            /\ Begin(t, "Add", "add_snap")
       ELSE /\ count' = count
            /\ added' = added
            /\ Refuse(t, "Add", AddEntry(t))
    /\ UNCHANGED <<waiting, collected, def_count, mtx, new_wg, ex, delivered,
                   attached, decremented, fresh, epoch>>
    /\ UNCHANGED <<gvars, tvars>>

\* def_count = count.load()
AddSnapshot(t) ==
    /\ pc[t] = "add_snap"
    /\ def_count' = count
    /\ added' = 0
    /\ Finish(t, "ok")
    /\ UNCHANGED <<count, waiting, collected, mtx, new_wg, ex, delivered,
                   budget, attached, decremented, fresh, epoch, tpre, tquiet>>
    /\ UNCHANGED <<gvars, tvars>>

(***************************************************************************)
(* Done(std::exception_ptr ex)                                             *)
(***************************************************************************)
\* Mutant: the owner's Done is carried out like a worker's.
DoneEntry_NoOwnerGuard(t) == "go"

\* if (std::this_thread::get_id() == owner) return;
DoneEntry(t) == IF t = Owner THEN "return" ELSE "go"

\* Owner check: the owner's Done returns at once.  Done returns nothing, so
\* only the owner's misuse is recorded in `last`.
DoneCall(t, failed) ==
    /\ pc[t] = "idle"
    /\ Disturb(t)
    /\ IF DoneEntry(t) = "return"
       THEN /\ calls < OwnerCalls
            /\ calls' = calls + 1
            /\ last' = Event(t, "Done", "ok")
            /\ UNCHANGED <<pc, op, ex, fresh, dones>>
       ELSE /\ dones < WorkerCalls
            /\ dones' = dones + 1
            /\ UNCHANGED calls
            /\ pc' = [pc EXCEPT ![t] = IF failed THEN "done_lock" ELSE "done_sub"]
            /\ op' = [op EXCEPT ![t] = "Done"]
            /\ ex' = [ex EXCEPT ![t] = IF failed THEN Rec(t) ELSE NoEx]
            /\ fresh' = [fresh EXCEPT ![t] = failed]
            /\ UNCHANGED last
    /\ UNCHANGED <<count, waiting, collected, def_count, mtx, new_wg,
                   delivered, attached, decremented, epoch, added>>
    /\ UNCHANGED gvars

\* Done called by a thread on its own account, not on behalf of a Task.
Done(t, failed) == DoneCall(t, failed) /\ UNCHANGED tvars

\* Mutant: the record replaces what was collected.
PushBack_Overwrite(c, e) == <<e>>

\* What collected holds after push_back(e).
PushBack(c, e) == Append(c, e)

\* if (ex) { unique_lock lock(mtx); ...: the mutex is taken.
DoneLock(t) ==
    /\ Step(t, "done_lock", "done_push")
    /\ mtx = "free"
    /\ mtx' = t
    /\ UNCHANGED <<wgvars, ex, delivered, histvars>>
    /\ UNCHANGED <<gvars, tvars>>

\* collected.push_back(ex); } and the lock's scope ends.
DonePush(t) ==
    /\ Step(t, "done_push", "done_sub")
    /\ mtx = t
    /\ mtx' = "free"
    /\ collected' = PushBack(collected, ex[t])
    /\ attached' = BagAdd(attached, ex[t])
    /\ UNCHANGED <<count, waiting, def_count, new_wg, ex, delivered,
                   decremented, fresh, epoch, added>>
    /\ UNCHANGED <<gvars, tvars>>

\* Done returns.
DoneReturn(t) ==
    /\ op' = [op EXCEPT ![t] = "none"]
    /\ ex' = [ex EXCEPT ![t] = NoEx]
    /\ fresh' = [fresh EXCEPT ![t] = FALSE]
    /\ UNCHANGED last

\* count.fetch_sub(1) == 1
DoneSub(t) ==
    /\ pc[t] = "done_sub"
    /\ count' = count - 1
    /\ decremented' = IF fresh[t] THEN BagAdd(decremented, ex[t])
                      ELSE decremented
    /\ IF count = 1
       THEN /\ pc' = [pc EXCEPT ![t] = "done_notify"]
            /\ UNCHANGED <<op, last, ex, fresh>>
       ELSE /\ pc' = [pc EXCEPT ![t] = "idle"]
            /\ DoneReturn(t)
    /\ UNCHANGED <<waiting, collected, def_count, mtx, new_wg, delivered,
                   budget, attached, epoch, added, tpre, tquiet>>
    /\ UNCHANGED <<gvars, tvars>>

\* cv.notify_all(): every thread parked on cv is made runnable; it has to
\* take the mutex again before it reads the predicate.
NotifyAll == [u \in Threads |-> IF pc[u] = "w_parked" THEN "w_lock" ELSE pc[u]]

DoneNotify(t) ==
    /\ pc[t] = "done_notify"
    /\ pc' = [NotifyAll EXCEPT ![t] = "idle"]
    /\ DoneReturn(t)
    /\ UNCHANGED <<wgvars, mtx, delivered, budget, attached, decremented,
                   epoch, added, tpre, tquiet>>
    /\ UNCHANGED <<gvars, tvars>>

(***************************************************************************)
(* Wait() and WaitFor(timeout)                                             *)
(***************************************************************************)
\* Mutant: waiting is set without the compare-and-swap failing a second wait.
WaitEntry_NoReuseCheck(t) == IF t # Owner THEN "ownership" ELSE "go"

\* The owner check and waiting.compare_exchange_strong(false, true).
WaitEntry(t) ==
    IF t # Owner THEN "ownership"
    ELSE IF waiting THEN "reuse"
    ELSE "go"

\* Mutant: the compare-and-swap on waiting is made before the owner check.
Enter_CasFirst(t, name) ==
    /\ Call(t)
    /\ Disturb(t)
    /\ waiting' = TRUE
    /\ IF WaitEntry(t) = "go"
       THEN Begin(t, name, "w_lock")
       ELSE Refuse(t, name, WaitEntry(t))
    /\ UNCHANGED <<count, collected, def_count, mtx, new_wg, ex, delivered,
                   histvars>>
    /\ UNCHANGED <<gvars, tvars>>

\* Entry of Wait and of WaitFor (the same two guards in both).
Enter(t, name) ==
    /\ Call(t)
    /\ Disturb(t)
    /\ IF WaitEntry(t) = "go"
       THEN /\ waiting' = TRUE
            /\ Begin(t, name, "w_lock")
       ELSE /\ waiting' = waiting
            /\ Refuse(t, name, WaitEntry(t))
    /\ UNCHANGED <<count, collected, def_count, mtx, new_wg, ex, delivered,
                   histvars>>
    /\ UNCHANGED <<gvars, tvars>>

Wait(t) == Enter(t, "Wait")

WaitFor(t) == Enter(t, "WaitFor")

\* Mutant: a collected failure ends the wait too.
Pred_OrFailed == count = 0 \/ collected # <<>>

\* The predicate of cv.wait / cv.wait_for.
Pred == count = 0

\* if (!collected.empty()) throw CongregatedException(std::move(collected));
\* otherwise Wait returns and WaitFor returns true.  The lock's scope ends.
WaitCollect(t) ==
    /\ IF collected # <<>>
       THEN /\ delivered' = collected
            /\ collected' = <<>>
            /\ Finish(t, "aggregate")
       ELSE /\ UNCHANGED <<delivered, collected>>
            /\ Finish(t, IF op[t] = "Wait" THEN "ok" ELSE "true")
    /\ mtx' = "free"

\* The mutex is taken (unique_lock on entry, inside cv.wait / cv.wait_for
\* after a wake-up) and the predicate is read under it: true ends the wait,
\* false leads to parking.
WaitCheck(t) ==
    /\ pc[t] = "w_lock"
    /\ mtx = "free"
    /\ IF Pred
       THEN WaitCollect(t)
       ELSE /\ mtx' = t
            /\ pc' = [pc EXCEPT ![t] = "w_park"]
            /\ UNCHANGED <<op, last, delivered, collected>>
    /\ UNCHANGED <<count, waiting, def_count, new_wg, ex, budget, histvars,
                   tpre, tquiet>>
    /\ UNCHANGED <<gvars, tvars>>

\* Mutant: the thread parks with the mutex still held.
WaitPark_KeepsMutex(t) ==
    /\ Step(t, "w_park", "w_parked")
    /\ UNCHANGED <<wgvars, mtx, ex, delivered, histvars>>
    /\ UNCHANGED <<gvars, tvars>>

\* cv.wait(lock): the mutex is released and the thread parks, atomically.
WaitPark(t) ==
    /\ Step(t, "w_park", "w_parked")
    /\ mtx' = "free"
    /\ UNCHANGED <<wgvars, ex, delivered, histvars>>
    /\ UNCHANGED <<gvars, tvars>>

\* A condition variable may wake a parked thread without a notification.
SpuriousWake(t) ==
    /\ Step(t, "w_parked", "w_lock")
    /\ UNCHANGED <<wgvars, mtx, ex, delivered, histvars>>
    /\ UNCHANGED <<gvars, tvars>>

\* cv.wait_for: the timeout expires while the thread is parked.
Timeout(t) ==
    /\ op[t] = "WaitFor"
    /\ Step(t, "w_parked", "w_expired")
    /\ UNCHANGED <<wgvars, mtx, ex, delivered, histvars>>
    /\ UNCHANGED <<gvars, tvars>>

\* Mutant: a timed-out WaitFor gives the waiting flag back.
WaitForExpired_ClearsWaiting(t) ==
    /\ pc[t] = "w_expired"
    /\ mtx = "free"
    /\ IF Pred
       THEN WaitCollect(t) /\ UNCHANGED waiting
       ELSE /\ Finish(t, "false")
            /\ waiting' = FALSE
            /\ UNCHANGED <<mtx, delivered, collected>>
    /\ UNCHANGED <<count, def_count, new_wg, ex, budget, histvars, tpre, tquiet>>
    /\ UNCHANGED <<gvars, tvars>>

\* Mutant: a WaitFor whose timeout expired returns false without reading
\* the predicate again.
WaitForExpired_NoRecheck(t) ==
    /\ pc[t] = "w_expired"
    /\ mtx = "free"
    /\ Finish(t, "false")
    /\ UNCHANGED <<mtx, delivered, collected>>
    /\ UNCHANGED <<count, waiting, def_count, new_wg, ex, budget, histvars,
                   tpre, tquiet>>
    /\ UNCHANGED <<gvars, tvars>>

\* cv.wait_for after the timeout: the mutex is taken again and pred() is
\* what wait_for returns; `success == false` makes WaitFor return false.
WaitForExpired(t) ==
    /\ pc[t] = "w_expired"
    /\ mtx = "free"
    /\ IF Pred
       THEN WaitCollect(t)
       ELSE /\ Finish(t, "false")
            /\ UNCHANGED <<mtx, delivered, collected>>
    /\ UNCHANGED <<count, waiting, def_count, new_wg, ex, budget, histvars,
                   tpre, tquiet>>
    /\ UNCHANGED <<gvars, tvars>>

(***************************************************************************)
(* Reset()                                                                 *)
(***************************************************************************)
Reset(t) ==
    /\ Call(t)
    /\ Disturb(t)
    /\ IF t # Owner
       THEN Refuse(t, "Reset", "ownership")
       ELSE Begin(t, "Reset", "r_lock")
    /\ UNCHANGED <<wgvars, mtx, ex, delivered, histvars>>
    /\ UNCHANGED <<gvars, tvars>>

\* Mutant: || in place of &&.
ResetRefused_Or == count # 0 \/ waiting

\* count.load() != 0 && waiting.load() == true
ResetRefused == count # 0 /\ waiting

\* unique_lock lock(mtx) and the quiescence check.
ResetCheck(t) ==
    /\ pc[t] = "r_lock"
    /\ mtx = "free"
    /\ IF ResetRefused
       THEN /\ Finish(t, "notquiescent")
            /\ UNCHANGED mtx
       ELSE /\ pc' = [pc EXCEPT ![t] = "r_store"]
            /\ mtx' = t
            /\ UNCHANGED <<op, last>>
    /\ UNCHANGED <<wgvars, ex, delivered, budget, histvars, tpre, tquiet>>
    /\ UNCHANGED <<gvars, tvars>>

\* Mutant: collected.clear() is missing.
ResetStore_KeepsCollected(t) ==
    /\ pc[t] = "r_store"
    /\ count' = def_count
    /\ waiting' = FALSE
    /\ mtx' = "free"
    /\ Finish(t, "ok")
    /\ epoch' = epoch + 1
    /\ UNCHANGED added
    /\ UNCHANGED <<collected, def_count, new_wg, ex, delivered, budget,
                   attached, decremented, fresh, tpre, tquiet>>
    /\ UNCHANGED <<gvars, tvars>>

\* count.store(def_count); waiting.store(false); collected.clear();
ResetStore(t) ==
    /\ pc[t] = "r_store"
    /\ count' = def_count
    /\ waiting' = FALSE
    /\ collected' = <<>>
    /\ mtx' = "free"
    /\ Finish(t, "ok")
    /\ attached' = ZeroBag
    /\ decremented' = ZeroBag
    /\ fresh' = [u \in Threads |-> FALSE]
    /\ epoch' = epoch + 1
    /\ UNCHANGED added
    /\ UNCHANGED <<def_count, new_wg, ex, delivered, budget, tpre, tquiet>>
    /\ UNCHANGED <<gvars, tvars>>

(***************************************************************************)
(* static Transfer(WaitGroup& original), called on wg by thread t          *)
(***************************************************************************)
\* original.waiting.load()
TransferEntry == IF waiting THEN "useafterwait" ELSE "go"

\* The waiting check; WaitGroup new_wg; new_wg.owner = this thread.
Transfer(t) ==
    /\ Call(t)
    /\ TransferEntry = "go" => new_wg = NoWG
    /\ IF TransferEntry = "go"
       THEN /\ new_wg' = [NoWG EXCEPT !.owner = t]
            /\ tquiet' = \A u \in Threads \ {t} : pc[u] = "idle"
            /\ tpre' = IF tquiet'
                       THEN [count |-> count, collected |-> collected,
                             def_count |-> def_count]
                       ELSE NoPre
            /\ Begin(t, "Transfer", "t_lock")
       ELSE /\ UNCHANGED new_wg
            /\ Disturb(t)
            /\ Refuse(t, "Transfer", TransferEntry)
    /\ UNCHANGED <<count, waiting, collected, def_count, mtx, ex, delivered,
                   histvars>>
    /\ UNCHANGED <<gvars, tvars>>

\* unique_lock lock(original.mtx);
\* new_wg.count.store(original.count.load())
TransferLoad(t) ==
    /\ Step(t, "t_lock", "t_zero")
    /\ mtx = "free"
    /\ mtx' = t
    /\ new_wg' = [new_wg EXCEPT !.count = count]
    /\ UNCHANGED <<count, waiting, collected, def_count, ex, delivered,
                   histvars>>
    /\ UNCHANGED <<gvars, tvars>>

\* original.count.store(0)
TransferZero(t) ==
    /\ Step(t, "t_zero", "t_move")
    /\ count' = 0
    /\ UNCHANGED <<waiting, collected, def_count, mtx, new_wg, ex, delivered,
                   histvars>>
    /\ UNCHANGED <<gvars, tvars>>

\* Mutant: the snapshot stays behind.
TransferMove_NoSnapshot(t) ==
    /\ pc[t] = "t_move"
    /\ new_wg' = [new_wg EXCEPT !.collected = collected]
    /\ collected' = <<>>
    /\ mtx' = "free"
    /\ Finish(t, "ok")
    /\ attached' = ZeroBag
    /\ decremented' = ZeroBag
    /\ fresh' = [u \in Threads |-> FALSE]
    /\ UNCHANGED <<count, waiting, def_count, ex, delivered, budget, epoch, added,
                   tpre, tquiet>>
    /\ UNCHANGED <<gvars, tvars>>

\* new_wg.collected = std::move(original.collected); the snapshot moves;
\* original.collected.clear(); return new_wg.  The lock's scope ends.
TransferMove(t) ==
    /\ pc[t] = "t_move"
    /\ new_wg' = [new_wg EXCEPT !.collected = collected,
                                !.def_count = def_count]
    /\ collected' = <<>>
    /\ def_count' = 0
    /\ mtx' = "free"
    /\ Finish(t, "ok")
    /\ attached' = ZeroBag
    /\ decremented' = ZeroBag
    /\ fresh' = [u \in Threads |-> FALSE]
    /\ UNCHANGED <<count, waiting, ex, delivered, budget, epoch, added, tpre, tquiet>>
    /\ UNCHANGED <<gvars, tvars>>

(***************************************************************************)
(* The program.  Every thread runs the operation it started to its end.    *)
(*   Spec          the owner calls Add, Wait, WaitFor, Reset and Done, the *)
(*                 workers call Done;                                      *)
(*   SpecOutsider  also, the outsider calls the owner's operations;        *)
(*   SpecTransfer  also, the owner or the outsider calls Transfer on wg.   *)
(***************************************************************************)
(***************************************************************************)
(* HasFinishedSuccessfully() and GetExceptions(): const members that any   *)
(* thread may call; neither checks the owner nor takes the mutex.          *)
(***************************************************************************)
\* Thread u is inside a critical section of mtx that writes `collected`:
\* push_back in Done, clear in Reset, the move in Transfer.
Writing(u) == mtx = u /\ pc[u] \in {"done_push", "r_store", "t_move"}

\* What `!collected.size()` can evaluate to.  Read while another thread
\* writes the vector it is a data race, and either value can come out.
SizeIsZero(t) ==
    IF \E u \in Threads \ {t} : Writing(u)
    THEN BOOLEAN
    ELSE {Len(collected) = 0}

\* return !collected.size();
HasFinishedSuccessfully(t) ==
    /\ Call(t)
    /\ Disturb(t)
    /\ \E r \in SizeIsZero(t) :
          Refuse(t, "HasFinishedSuccessfully", IF r THEN "true" ELSE "false")
    /\ UNCHANGED <<wgvars, mtx, ex, delivered, histvars>>
    /\ UNCHANGED <<gvars, tvars>>

\* return collected;  (a reference: the caller reads the vector through it
\* later, with no lock either)
GetExceptions(t) ==
    /\ Call(t)
    /\ Disturb(t)
    /\ Refuse(t, "GetExceptions", "reference")
    /\ UNCHANGED <<wgvars, mtx, ex, delivered, histvars>>
    /\ UNCHANGED <<gvars, tvars>>

\* The steps that carry on an operation thread t has started.  A spurious
\* wake-up and a timeout are not among them: the thread's own code does not
\* bring them about.
Continue(t) ==
    \/ AddSnapshot(t)
    \/ DoneLock(t) \/ DonePush(t) \/ DoneSub(t) \/ DoneNotify(t)
    \/ WaitCheck(t) \/ WaitPark(t) \/ WaitForExpired(t)
    \/ ResetCheck(t) \/ ResetStore(t)

OwnerOps(t) ==
    \/ \E n \in AddArgs : Add(t, n)
    \/ Wait(t)
    \/ WaitFor(t)
    \/ Reset(t)

Next ==
    \/ OwnerOps(Owner)
    \/ \E t \in {Owner} \cup Workers :
        \E failed \in BOOLEAN : Done(t, failed)
    \/ \E t \in Threads :
        \/ Continue(t)
        \/ SpuriousWake(t)
        \/ Timeout(t)

Spec == Init /\ [][Next]_vars

\* The threads that look at the outcome: the owner, and a thread that
\* watches wg from outside.
Observers == {Owner, Outsider}

NextObserver ==
    \/ Next
    \/ \E t \in Observers :
        \/ HasFinishedSuccessfully(t)
        \/ GetExceptions(t)

SpecObserver == Init /\ [][NextObserver]_vars

NextOutsider ==
    \/ Next
    \/ OwnerOps(Outsider)

SpecOutsider == Init /\ [][NextOutsider]_vars

NextTransfer ==
    \/ calls < TransferCalls /\ (OwnerOps(Owner) \/ Transfer(Owner))
    \/ Transfer(Outsider)
    \/ \E t \in Workers : \E failed \in BOOLEAN : Done(t, failed)
    \/ \E t \in Threads :
        \/ Continue(t)
        \/ SpuriousWake(t)
        \/ Timeout(t)
        \/ TransferLoad(t) \/ TransferZero(t) \/ TransferMove(t)

SpecTransfer == Init /\ [][NextTransfer]_vars

\* The owner's operations and Transfer together with the calls of a thread
\* that is not the owner: every way an operation can be refused.  One worker
\* reports its work.
NextRefusals ==
    \/ calls < TransferCalls /\ (OwnerOps(Owner) \/ Transfer(Owner))
    \/ OwnerOps(Outsider)
    \/ Transfer(Outsider)
    \/ \E failed \in BOOLEAN : Done("w1", failed)
    \/ \E t \in Threads :
        \/ Continue(t)
        \/ SpuriousWake(t)
        \/ Timeout(t)
        \/ TransferLoad(t) \/ TransferZero(t) \/ TransferMove(t)

SpecRefusals == Init /\ [][NextRefusals]_vars

\* Every thread that has started an operation is scheduled again: the steps
\* of Continue are taken when they stay possible.  Nothing promises a
\* spurious wake-up, a timeout or a further call.
Fairness == \A t \in Threads : WF_vars(Continue(t))

SpecFair == Spec /\ Fairness

\* Also, a thread that asks for the mutex gets it when it is free again and
\* again: std::mutex::lock returns once the holders have let go.
FairnessLock == \A t \in Threads : SF_vars(Continue(t))

SpecFairLock == Spec /\ FairnessLock

\* Also, the timeout of a wait_for passes: a WaitFor that parks again and
\* again meets its deadline.
FairnessTimeout == FairnessLock /\ SF_vars(Timeout(Owner))

SpecFairTimeout == Spec /\ FairnessTimeout

(***************************************************************************)
(* Gate operations: Wait, Signal, Reset of the class `variant`.            *)
(***************************************************************************)
wgall == <<wgvars, mtx, pc, op, ex, last, delivered, budget, histvars, tpre,
           tquiet>>

\* Thread t, idle, calls a gate operation.
GCall(t) ==
    /\ gpc[t] = "idle"
    /\ gcalls < GateCalls
    /\ gcalls' = gcalls + 1

GBegin(t, name, p) ==
    /\ gpc' = [gpc EXCEPT ![t] = p]
    /\ gop' = [gop EXCEPT ![t] = name]
    /\ glast' = Event(t, name, "started")

\* Thread t's gate operation returns.
GReturn(t) ==
    /\ gpc' = [gpc EXCEPT ![t] = "idle"]
    /\ gop' = [gop EXCEPT ![t] = "none"]
    /\ gi' = [gi EXCEPT ![t] = 0]
    /\ gn' = [gn EXCEPT ![t] = 0]
    /\ glast' = Event(t, gop[t], "returned")

\* void SetSpinCount(unsigned int count): spinCount.store(count)
SetSpinCount(t, n) ==
    /\ Mechanism(variant) = "hybrid"
    /\ GCall(t)
    /\ spinCount' = n
    /\ glast' = Event(t, "SetSpinCount", "returned")
    /\ UNCHANGED <<variant, ready, gmtx, gpc, gop, gi, gn, signals>>
    /\ UNCHANGED <<wgall, tvars>>

\* Where Wait starts: the spin loop, the bounded spin loop (i = 0, when
\* 0 < currentSpinCount), or the unique_lock.
WaitStart ==
    IF Mechanism(variant) = "spin" THEN "spin"
    ELSE IF Mechanism(variant) = "hybrid" /\ 0 < spinCount THEN "hspin"
    ELSE "g_lock"

\* Wait is called; the hybrid classes read spinCount once, into
\* currentSpinCount.
GWait(t) ==
    /\ GCall(t)
    /\ GBegin(t, "Wait", WaitStart)
    /\ gn' = [gn EXCEPT ![t] = IF WaitStart = "hspin" THEN spinCount ELSE 0]
    /\ UNCHANGED <<variant, spinCount, ready, gmtx, gi, signals>>
    /\ UNCHANGED <<wgall, tvars>>

\* Mutant: the test of `ready` always succeeds.
GPred_Always == TRUE

\* ready.load(): the loop test of the spinning Wait, the predicate of cv.wait.
GPred == ready

\* while (!ready.load()) yield();
GSpinRead(t) ==
    /\ gpc[t] = "spin"
    /\ IF GPred
       THEN GReturn(t)
       ELSE UNCHANGED <<gpc, gop, gi, gn, glast>>
    /\ UNCHANGED <<variant, spinCount, ready, gmtx, gcalls, signals>>
    /\ UNCHANGED <<wgall, tvars>>

\* Mutant: the loop tests i against spinCount itself on every round.
SpinBound_Live(t) == spinCount

\* The bound of the spin loop: currentSpinCount, read at Wait's entry.
SpinBound(t) == gn[t]

\* for (i = 0; i < currentSpinCount; ++i) { if (ready.load()) return; yield(); }
GHybridRead(t) ==
    /\ gpc[t] = "hspin"
    /\ IF GPred
       THEN GReturn(t)
       ELSE /\ gi' = [gi EXCEPT ![t] = IF gi[t] + 1 < SpinBound(t)
                                       THEN gi[t] + 1 ELSE 0]
            /\ gn' = [gn EXCEPT ![t] = IF gi[t] + 1 < SpinBound(t)
                                       THEN gn[t] ELSE 0]
            /\ gpc' = [gpc EXCEPT ![t] = IF gi[t] + 1 < SpinBound(t)
                                         THEN "hspin" ELSE "g_lock"]
            /\ UNCHANGED <<gop, glast>>
    /\ UNCHANGED <<variant, spinCount, ready, gmtx, gcalls, signals>>
    /\ UNCHANGED <<wgall, tvars>>

\* The mutex is taken (unique_lock, or inside cv.wait after a wake-up) and
\* the predicate is read under it: true ends Wait, false leads to parking.
GWaitCheck(t) ==
    /\ gpc[t] = "g_lock"
    /\ gmtx = "free"
    /\ IF GPred
       THEN GReturn(t) /\ UNCHANGED gmtx
       ELSE /\ gmtx' = t
            /\ gpc' = [gpc EXCEPT ![t] = "g_park"]
            /\ UNCHANGED <<gop, gi, gn, glast>>
    /\ UNCHANGED <<variant, spinCount, ready, gcalls, signals>>
    /\ UNCHANGED <<wgall, tvars>>

\* cv.wait(lock): the mutex is released and the thread parks, atomically.
GWaitPark(t) ==
    /\ gpc[t] = "g_park"
    /\ gpc' = [gpc EXCEPT ![t] = "g_parked"]
    /\ gmtx' = "free"
    /\ UNCHANGED <<variant, spinCount, ready, gop, gi, gn, glast, gcalls, signals>>
    /\ UNCHANGED <<wgall, tvars>>

\* A condition variable may wake a parked thread without a notification.
GSpuriousWake(t) ==
    /\ gpc[t] = "g_parked"
    /\ gpc' = [gpc EXCEPT ![t] = "g_lock"]
    /\ UNCHANGED <<variant, spinCount, ready, gmtx, gop, gi, gn, glast, gcalls, signals>>
    /\ UNCHANGED <<wgall, tvars>>

GSignal(t) ==
    /\ GCall(t)
    /\ GBegin(t, "Signal", "sig_store")
    /\ UNCHANGED <<variant, spinCount, ready, gmtx, gi, gn, signals>>
    /\ UNCHANGED <<wgall, tvars>>

\* Mutant: Signal flips the flag.
SignalValue_Toggle == ~ready

\* What Signal stores into ready.
SignalValue == TRUE

\* ready.store(true), under lock_guard(mtx) where the class has a mutex; the
\* spinning classes' Signal returns here.
GSignalStore(t) ==
    /\ gpc[t] = "sig_store"
    /\ Mechanism(variant) # "spin" => gmtx = "free"
    /\ ready' = SignalValue
    /\ signals' = signals + 1
    /\ IF Mechanism(variant) = "spin"
       THEN GReturn(t) /\ UNCHANGED gmtx
       ELSE /\ gmtx' = t
            /\ gpc' = [gpc EXCEPT ![t] = "sig_notify"]
            /\ UNCHANGED <<gop, gi, gn, glast>>
    /\ UNCHANGED <<variant, spinCount, gcalls>>
    /\ UNCHANGED <<wgall, tvars>>

\* Mutant: notify_one in place of notify_all.
GNotifyAll_One ==
    IF \E u \in GateThreads : gpc[u] = "g_parked"
    THEN [gpc EXCEPT ![CHOOSE u \in GateThreads : gpc[u] = "g_parked"] = "g_lock"]
    ELSE gpc

\* cv.notify_all(): every thread parked on cv is made runnable; it has to
\* take the mutex again before it reads the predicate.
GNotifyAll ==
    [u \in GateThreads |-> IF gpc[u] = "g_parked" THEN "g_lock" ELSE gpc[u]]

\* cv.notify_all(); the lock_guard's scope ends and Signal returns.
GSignalNotify(t) ==
    /\ gpc[t] = "sig_notify"
    /\ gpc' = [GNotifyAll EXCEPT ![t] = "idle"]
    /\ gop' = [gop EXCEPT ![t] = "none"]
    /\ glast' = Event(t, "Signal", "returned")
    /\ gmtx' = "free"
    /\ UNCHANGED <<variant, spinCount, ready, gi, gn, gcalls, signals>>
    /\ UNCHANGED <<wgall, tvars>>

GReset(t) ==
    /\ GCall(t)
    /\ GBegin(t, "Reset", "rst_store")
    /\ UNCHANGED <<variant, spinCount, ready, gmtx, gi, gn, signals>>
    /\ UNCHANGED <<wgall, tvars>>

\* ready.store(false), under lock_guard(mtx) where the class has a mutex.
GResetStore(t) ==
    /\ gpc[t] = "rst_store"
    /\ Mechanism(variant) # "spin" => gmtx = "free"
    /\ ready' = FALSE
    /\ GReturn(t)
    /\ UNCHANGED <<variant, spinCount, gmtx, gcalls, signals>>
    /\ UNCHANGED <<wgall, tvars>>

\* The steps that carry on a gate operation thread t has started.
GContinue(t) ==
    \/ GSpinRead(t) \/ GHybridRead(t)
    \/ GWaitCheck(t) \/ GWaitPark(t)
    \/ GSignalStore(t) \/ GSignalNotify(t)
    \/ GResetStore(t)

NextGate ==
    \E t \in GateThreads :
        \/ GWait(t) \/ GSignal(t) \/ GReset(t)
        \/ \E n \in 0 .. SpinCount : SetSpinCount(t, n)
        \/ GContinue(t)
        \/ GSpuriousWake(t)

\* A gate of any of the six classes after construction.
InitGate == WGInit /\ TaskInit("none") /\ \E v \in Variants : GateInit(v)

SpecGate == InitGate /\ [][NextGate]_vars

\* Every thread inside a gate operation is scheduled again, and one that
\* asks for the mutex gets it when it is free again and again.
GateFairness == \A t \in GateThreads : SF_vars(GContinue(t))

SpecGateFair == SpecGate /\ GateFairness

(***************************************************************************)
(* Task<T> (part_000): the lambda `task` its constructor builds around the *)
(* callable f, and Abandon().  Each Task holds a pointer to wg.  The       *)
(* scheduler of the repository does not run anything, so the lambda is     *)
(* invoked here by a worker thread, at any time after Execute.             *)
(***************************************************************************)
\* TaskScheduler::CancelTask(ticket): return TaskState::Failed;
CancelTask == "Failed"

\* The promise `result` already holds a value or an exception: set_value and
\* set_exception then throw std::future_error and store nothing.
Satisfied(k) == result[k] # "empty"

\* Thread t is inside the lambda or the Abandon of some Task.
Busy(t) == \E j \in Tasks : runner[j] = t \/ abthread[j] = t

\* The lambda runs on thread w up to the return of f():
\*   try { T rt_val = f(); wg->Done(); ...
\*   } catch (const std::exception& e) { result.set_exception(...); }
\* A callable that throws takes the lambda to the catch and to its end.
TaskInvoke(k, w, throws) ==
    /\ taskpc[k] = "scheduled"
    /\ pc[w] = "idle"
    /\ ~Busy(w)
    /\ IF throws
       THEN /\ taskpc' = [taskpc EXCEPT ![k] = "over"]
            /\ result' = [result EXCEPT
                             ![k] = IF Satisfied(k) THEN @ ELSE "exception"]
            /\ UNCHANGED <<runner, taskdones>>
            /\ UNCHANGED <<wgall, gvars>>
       ELSE /\ DoneCall(w, FALSE)
            /\ taskpc' = [taskpc EXCEPT ![k] = "in_done"]
            /\ runner' = [runner EXCEPT ![k] = w]
            /\ taskdones' = [taskdones EXCEPT ![k] = @ + 1]
            /\ UNCHANGED result
    /\ UNCHANGED <<abpc, abthread>>

\* result.set_value(rt_val), once Done has returned; the lambda ends.  (On a
\* satisfied promise set_value throws, and so does the catch's
\* set_exception.)
TaskSetValue(k) ==
    /\ taskpc[k] = "in_done"
    /\ pc[runner[k]] = "idle"
    /\ taskpc' = [taskpc EXCEPT ![k] = "over"]
    /\ result' = [result EXCEPT ![k] = IF Satisfied(k) THEN @ ELSE "value"]
    /\ runner' = [runner EXCEPT ![k] = "none"]
    /\ UNCHANGED <<abpc, abthread, taskdones>>
    /\ UNCHANGED <<wgall, gvars>>

\* Abandon(), called by thread t: wg->Done();
Abandon(k, t) ==
    /\ taskpc[k] # "none"
    /\ abpc[k] = "none"
    /\ ~Busy(t)
    /\ DoneCall(t, FALSE)
    /\ abpc' = [abpc EXCEPT ![k] = "in_done"]
    /\ abthread' = [abthread EXCEPT ![k] = t]
    /\ taskdones' = [taskdones EXCEPT ![k] = @ + 1]
    /\ UNCHANGED <<taskpc, runner, result>>

\* The rest of Abandon, once Done has returned: result.set_exception(...),
\* which throws out of Abandon on a satisfied promise; then
\* state = CancelTask(ticket), and wg.Done() once more when the state is
\* Abandonned.
AbandonCancel(k) ==
    /\ abpc[k] = "in_done"
    /\ pc[abthread[k]] = "idle"
    /\ IF Satisfied(k)
       THEN /\ UNCHANGED <<result, taskdones>>
            /\ UNCHANGED <<wgall, gvars>>
       ELSE /\ result' = [result EXCEPT ![k] = "exception"]
            /\ IF CancelTask = "Abandonned"
               THEN /\ DoneCall(abthread[k], FALSE)
                    /\ taskdones' = [taskdones EXCEPT ![k] = @ + 1]
               ELSE /\ UNCHANGED taskdones
                    /\ UNCHANGED <<wgall, gvars>>
    /\ abpc' = [abpc EXCEPT ![k] = "over"]
    /\ abthread' = [abthread EXCEPT ![k] = "none"]
    /\ UNCHANGED <<taskpc, runner>>

\* The owner does Add(1) per Task and waits; the lambdas run on the
\* workers; the owner, or another thread, abandons Tasks.
NextTask ==
    \/ Add(Owner, 1)
    \/ Wait(Owner)
    \/ \E k \in Tasks :
        \/ \E w \in Workers : \E throws \in BOOLEAN : TaskInvoke(k, w, throws)
        \/ TaskSetValue(k)
        \/ \E t \in {Owner, Outsider} : Abandon(k, t)
        \/ AbandonCancel(k)
    \/ \E t \in Threads :
        \/ AddSnapshot(t)
        \/ DoneSub(t) \/ DoneNotify(t)
        \/ WaitCheck(t) \/ WaitPark(t)
        \/ SpuriousWake(t)

\* wg after construction and two Tasks built on it, Execute called.
InitTask == WGInit /\ GateInit(NoGate) /\ TaskInit("scheduled")

SpecTask == InitTask /\ [][NextTask]_vars

(***************************************************************************)
(* Properties of WaitGroup                                                 *)
(***************************************************************************)
WaitOps == {"Wait", "WaitFor"}

\* This step is thread t calling operation `name`.
Calls(t, name) ==
    /\ pc[t] = "idle"
    /\ last' # last \/ calls' # calls
    /\ last'.who = t
    /\ last'.what = name

\* This step is thread t leaving operation `name`.
Leaves(t, name) == op[t] = name /\ op'[t] = "none"

\* C1: whenever the owner is inside Wait and the count is zero, Wait
\* eventually returns (or the count leaves zero first), in every fair
\* interleaving, the one where the last Done decrements and notifies between
\* the owner's predicate check and its parking included.
C1_WaitReturns ==
    (op[Owner] = "Wait" /\ count = 0) ~> (op[Owner] # "Wait" \/ count # 0)

\* C2: a Wait/WaitFor that ends after the count reached zero raises the
\* aggregated failure exactly when records were attached in the epoch, and
\* then carries exactly the multiset of those records; every record attached
\* by a Done that has decremented is among them.
C2_AggregateExact ==
    [][\A name \in WaitOps :
        (Leaves(Owner, name) /\ last'.how # "false") =>
            /\ BagLeq(decremented, attached)
            /\ IF attached = ZeroBag
               THEN last'.how = (IF name = "Wait" THEN "ok" ELSE "true")
               ELSE /\ last'.how = "aggregate"
                    /\ BagOf(delivered') = attached
                    /\ collected' = <<>>]_vars

C2_Witness ==
    /\ last = Event(Owner, "Wait", "aggregate")
    /\ BagOf(delivered) = [r \in Records |-> 1]
    /\ def_count = 2
    /\ count = 0
    /\ \A w \in Workers : pc[w] = "idle"

\* C3: every return and every aggregated-failure exit of Wait is a step
\* taken with the mutex, in a state where count is 0; a Done that attaches a
\* failure goes on to its decrement.
C3_ExitOnlyAtZero ==
    [][/\ Leaves(Owner, "Wait") =>
            /\ count = 0
            /\ count' = 0
            /\ mtx = "free"
            /\ last'.how \in {"ok", "aggregate"}
       /\ \A w \in Workers :
            pc[w] \in {"done_lock", "done_push"}
                => pc'[w] \in {"done_lock", "done_push", "done_sub"}]_vars

C3_Witness ==
    /\ last = Event(Owner, "Wait", "aggregate")
    /\ delivered = <<"E1">>
    /\ def_count = 1
    /\ count = 0
    /\ dones = 1

\* C4: a call of Add, Wait, WaitFor or Reset by a thread that is not the
\* owner fails with the ownership violation and changes nothing, whatever
\* the count, the waiting flag and the collected failures are.
C4_NonOwnerRefused ==
    [][\A name \in {"Add", "Wait", "WaitFor", "Reset"} :
        Calls(Outsider, name) =>
            /\ last'.how = "ownership"
            /\ UNCHANGED <<wgvars, mtx, pc, op, ex, delivered>>]_vars

C4_Witness ==
    /\ last = Event(Outsider, "Reset", "ownership")
    /\ waiting
    /\ count # 0
    /\ collected # <<>>
    /\ pc[Owner] = "idle"

\* C5: the waiting flag goes from false to true only in the owner's call of
\* Wait/WaitFor and from true to false only in a successful Reset; a call of
\* Wait or WaitFor made while it is true fails with the reuse violation.
C5_OneWaitPerEpoch ==
    [][/\ \A name \in WaitOps :
            Calls(Owner, name) =>
                IF waiting
                THEN /\ last'.how = "reuse"
                     /\ UNCHANGED <<wgvars, mtx, pc, op>>
                ELSE /\ last'.how = "started"
                     /\ waiting'
       /\ (~waiting /\ waiting') => \E name \in WaitOps : Calls(Owner, name)
       /\ (waiting /\ ~waiting') =>
            (Leaves(Owner, "Reset") /\ last'.how = "ok")]_vars

C5_Witness ==
    /\ last = Event(Owner, "WaitFor", "reuse")
    /\ delivered # <<>>
    /\ epoch = 0
    /\ count = 0

\* C6: an Add by the owner made while waiting is true fails with the
\* use-after-wait violation; while waiting stays true the snapshot does not
\* change and only a Done changes count; an Add made while waiting is false
\* is carried out.
C6_NoAddWhileWaiting ==
    [][/\ Calls(Owner, "Add") =>
            IF waiting
            THEN /\ last'.how = "useafterwait"
                 /\ UNCHANGED <<wgvars, mtx, pc, op>>
            ELSE last'.how = "started"
       /\ (waiting /\ waiting') =>
            /\ def_count' = def_count
            /\ count' # count =>
                \E w \in Workers : pc[w] = "done_sub" /\ pc'[w] # "done_sub"]_vars

C6_Witness ==
    /\ last = Event(Owner, "Add", "useafterwait")
    /\ waiting
    /\ count = 0
    /\ def_count = 1

\* C7: Reset by the owner fails with the not-quiescent error exactly when,
\* at its check under the mutex, count is not 0 and waiting is true; in
\* every other state it goes on, succeeds and sets count to the snapshot.
C7_ResetQuiescence ==
    [][/\ (pc[Owner] = "r_lock" /\ pc'[Owner] # "r_lock") =>
            IF count # 0 /\ waiting
            THEN /\ Leaves(Owner, "Reset")
                 /\ last'.how = "notquiescent"
                 /\ UNCHANGED wgvars
            ELSE pc'[Owner] = "r_store"
       /\ (pc[Owner] = "r_store" /\ pc'[Owner] # "r_store") =>
            /\ Leaves(Owner, "Reset")
            /\ last'.how = "ok"
            /\ count' = def_count]_vars

C7_Witness ==
    /\ last = Event(Owner, "Reset", "notquiescent")
    /\ waiting
    /\ count # 0

\* C8: a successful Reset leaves waiting false, collected empty and count
\* equal to the snapshot, which it keeps; a Wait or WaitFor called next
\* is not refused.
C8_ResetFreshEpoch ==
    [][/\ (Leaves(Owner, "Reset") /\ last'.how = "ok") =>
            /\ ~waiting'
            /\ collected' = <<>>
            /\ count' = def_count
            /\ def_count' = def_count
            /\ mtx' = "free"
       /\ \A name \in WaitOps :
            (last = Event(Owner, "Reset", "ok") /\ Calls(Owner, name)) =>
                last'.how = "started"]_vars

\* The second round of Add(1); Done; Wait; Reset; Done; Wait has completed.
C8_Witness ==
    /\ last = Event(Owner, "Wait", "ok")
    /\ epoch = 1
    /\ calls = 4
    /\ dones = 2
    /\ def_count = 1
    /\ count = 0

\* C9: a WaitFor whose final check under the mutex finds count not 0
\* returns false and leaves waiting true, count and collected as they were;
\* a Wait or WaitFor called next is refused with the reuse violation.
C9_TimeoutKeepsWaiting ==
    [][/\ (pc[Owner] = "w_expired" /\ pc'[Owner] # "w_expired" /\ count # 0) =>
            /\ Leaves(Owner, "WaitFor")
            /\ last'.how = "false"
            /\ waiting'
            /\ UNCHANGED <<count, collected, def_count>>
       /\ \A name \in WaitOps :
            (last = Event(Owner, "WaitFor", "false") /\ Calls(Owner, name)) =>
                last'.how = "reuse"]_vars

\* WaitFor has timed out and the count has reached zero since.
C9_Witness ==
    /\ last = Event(Owner, "WaitFor", "false")
    /\ waiting
    /\ count = 0
    /\ \A w \in Workers : pc[w] = "idle"

\* C10: a Transfer during which no other thread runs gives a WaitGroup owned
\* by the caller with the source's count, failures and snapshot and waiting
\* false, and leaves the source with count 0, no failures and snapshot 0; a
\* Transfer called while the source's waiting is true fails with the
\* use-after-wait violation and changes nothing.
C10_TransferMoves ==
    [][\A t \in {Owner, Outsider} :
        /\ (Leaves(t, "Transfer") /\ tquiet) =>
            /\ last'.how = "ok"
            /\ new_wg' = [owner |-> t, count |-> tpre.count,
                          collected |-> tpre.collected,
                          def_count |-> tpre.def_count, waiting |-> FALSE]
            /\ count' = 0
            /\ collected' = <<>>
            /\ def_count' = 0
            /\ ~waiting'
        /\ Calls(t, "Transfer") =>
            IF waiting
            THEN /\ last'.how = "useafterwait"
                 /\ UNCHANGED <<wgvars, mtx, pc, op>>
            ELSE last'.how = "started"]_vars

C10_Witness ==
    /\ last = Event(Outsider, "Transfer", "ok")
    /\ tquiet
    /\ new_wg = [owner |-> Outsider, count |-> 1, collected |-> <<"E1">>,
                 def_count |-> 2, waiting |-> FALSE]
    /\ count = 0
    /\ collected = <<>>
    /\ def_count = 0

\* C11: count, the 32-bit unsigned value the code holds, is at all times the
\* non-negative number of outstanding units (the Add arguments summed, less
\* the Done calls that decremented): it never wraps around below zero.  In
\* the two's-complement reading of the pattern a wrapped value is negative.
C11_CountNeverWraps == count >= 0

\* C12: every Done a worker has called returns, with or without a failure
\* record, whatever the owner is doing: no operation keeps the mutex while
\* it is blocked.
C12_DoneTerminates ==
    \A w \in Workers : (op[w] = "Done") ~> (op[w] = "none")

\* A Done is about to take the mutex for its record while the owner is parked
\* inside WaitFor.
C12_Witness ==
    /\ pc[Owner] = "w_parked"
    /\ op[Owner] = "WaitFor"
    /\ pc["w1"] = "done_lock"
    /\ mtx = "free"

\* C13: a Done called by the owner is a no-op: count, collected, waiting and
\* the snapshot are unchanged, no thread is woken, a record passed to it is
\* not stored, and the owner never enters the body of Done.
C13_OwnerDoneNoOp ==
    [][/\ Calls(Owner, "Done") =>
            /\ last'.how = "ok"
            /\ UNCHANGED <<wgvars, mtx, pc, op, ex, delivered, attached>>
       /\ op'[Owner] # "Done"]_vars

\* The owner has called Done after a WaitFor that timed out with one unit
\* outstanding; the unit is still outstanding.
C13_Witness ==
    /\ last = Event(Owner, "Done", "ok")
    /\ waiting
    /\ count = 1
    /\ def_count = 1
    /\ collected = <<>>
    /\ dones = 0

\* C14: Transfer is the owner's to call: no step of a Transfer that another
\* thread attempts changes the source's count, failures or snapshot.
C14_TransferOwnerOnly ==
    [][(pc'[Outsider] # pc[Outsider] /\ op'[Outsider] \in {"Transfer", "none"}) =>
            UNCHANGED <<count, collected, def_count>>]_vars

(***************************************************************************)
(* Properties of the gates                                                 *)
(***************************************************************************)
\* This step is thread t calling gate operation `name`.
GCalls(t, name) == gpc[t] = "idle" /\ gop'[t] = name

\* This step is thread t returning from gate operation `name`.
GLeaves(t, name) == gop[t] = name /\ gop'[t] = "none"

\* Thread t is inside Wait.
InWait(t) == gop[t] = "Wait"

\* C15: a latch is one-shot: once ready is true, no operation of SpinLatch,
\* Latch or HybridLatch makes it false again.
C15_LatchOneShot == [][(variant \in Latches /\ ready) => ready']_vars

\* C16: on every gate class, Wait returns only in a step that reads ready as
\* true, and never on a gate no Signal has stored into; a waiter parks only
\* after reading ready as false under the mutex, and the step a waiter takes
\* at its test of ready while ready is true is its return.
C16_WaitOnlyOnReady ==
    [][\A t \in GateThreads :
        /\ GLeaves(t, "Wait") => (ready /\ ready' /\ signals > 0)
        /\ (gpc'[t] = "g_parked" /\ gpc[t] # "g_parked") => ~ready
        /\ (ready /\ gpc[t] \in {"spin", "hspin", "g_lock"}
                  /\ gpc'[t] # gpc[t]) => GLeaves(t, "Wait")]_vars

\* A Wait has returned on a hybrid barrier that one Signal made ready.
C16_Witness ==
    /\ variant = "HybridBarrier"
    /\ glast = Event("g1", "Wait", "returned")
    /\ ready
    /\ signals = 1
    /\ gcalls = 2

\* C17: fan-out: on every gate class, once Signal has stored true, every
\* thread inside Wait eventually returns, wherever in Wait it is, unless a
\* Reset makes the gate not ready first.
C17_FanOut ==
    \A t \in GateThreads :
        (InWait(t) /\ ready) ~> (~InWait(t) \/ ~ready)

\* Two threads are parked in Wait and the third has stored true and is about
\* to notify.
C17_Witness ==
    /\ variant = "Barrier"
    /\ gpc = [t \in GateThreads |->
                IF t = "g3" THEN "sig_notify" ELSE "g_parked"]
    /\ ready
    /\ gmtx = "g3"

\* C18: Signal is idempotent: on every gate class each store Signal makes,
\* the first or a later one, from whichever thread, leaves ready true, and
\* ready stays true until a Reset returns.
C18_SignalIdempotent ==
    [][/\ \A t \in GateThreads :
            (gpc[t] = "sig_store" /\ gpc'[t] # "sig_store") =>
                (ready' /\ signals' = signals + 1)
       /\ (ready /\ ~ready') => \E t \in GateThreads : GLeaves(t, "Reset")]_vars

\* Two Signals, and nothing else, have been made on a hybrid latch.
C18_Witness ==
    /\ variant = "HybridLatch"
    /\ signals = 2
    /\ gcalls = 2
    /\ ready
    /\ \A t \in GateThreads : gpc[t] = "idle"

\* C19: Transfer never moves state out of a waiting source: in the step
\* that stores 0 into the source's count the source's waiting flag is false,
\* and the owner is never left parked in Wait on a count Transfer set to 0.
C19_NoTransferUnderWait ==
    [][\A t \in {Owner, Outsider} :
        (pc[t] = "t_zero" /\ pc'[t] = "t_move") =>
            /\ ~waiting
            /\ ~(pc[Owner] = "w_parked" /\ count # 0)]_vars

\* C20: Transfer conserves outstanding work under concurrent Done calls: its
\* store of 0 overwrites no decrement, that is, in the step that stores 0 the
\* source's count is still the value Transfer loaded into the new instance,
\* so that the two counts together stay the source's count less the Done
\* calls made.  The Transfers meant are those during which nothing but
\* workers' Done calls has run (`last` still shows the start of Transfer).
C20_TransferConserves ==
    [][\A t \in {Owner, Outsider} :
        (pc[t] = "t_zero" /\ pc'[t] = "t_move"
                          /\ last = Event(t, "Transfer", "started")) =>
            new_wg.count + count' = count]_vars

(***************************************************************************)
(* Properties of Add's snapshot, the unlocked readers, WaitFor's result,   *)
(* discarded records and refused operations.                               *)
(***************************************************************************)
\* C21: when a successful Add returns, def_count (the value a later Reset
\* restores) is the value count had right after that Add's own increment,
\* old count + n, whatever the workers' Done calls did in between.
C21_SnapshotIsIncrement ==
    [][(pc[Owner] = "add_snap" /\ pc'[Owner] # "add_snap")
          => def_count' = added]_vars

\* C22: every access to collected is made by a thread that holds the mutex:
\* no thread reads collected (HasFinishedSuccessfully's collected.size())
\* while another thread is inside Done's locked section appending to it.
C22_CollectedUnderMutex ==
    [][\A t \in Threads :
          Calls(t, "HasFinishedSuccessfully")
              => \A u \in Threads \ {t} : ~(pc[u] = "done_push" /\ mtx = u)]_vars

\* C23: a WaitFor the owner has entered ends, and its outcome is that of its
\* last predicate check under the mutex: it returns true or raises the
\* aggregated failure only in a state where count is 0, and returns false
\* only after the timeout, in a state where count is not 0.  A notification
\* that came before the owner parked does not change this.
C23_WaitForResult ==
    /\ [][Leaves(Owner, "WaitFor") =>
            /\ mtx = "free"
            /\ last'.how \in {"true", "aggregate", "false"}
            /\ last'.how \in {"true", "aggregate"} => count = 0 /\ count' = 0
            /\ last'.how = "false" =>
                   /\ pc[Owner] = "w_expired"
                   /\ count # 0
                   /\ count' # 0]_vars
    /\ (op[Owner] = "WaitFor") ~> (op[Owner] = "none")

\* The timeout of a WaitFor has expired with count at 0 and no Done left to
\* notify: WaitFor's final check is what makes it return true.
C23_Witness ==
    /\ op[Owner] = "WaitFor"
    /\ pc[Owner] = "w_expired"
    /\ def_count = 1
    /\ count = 0
    /\ collected = <<>>
    /\ \A w \in Workers : pc[w] = "idle"

Hybrids == {"HybridLatch", "HybridBarrier"}

\* What C24 asks of a step, for gate thread t.
HybridWaitStep(t) ==
    /\ GCalls(t, "Wait") =>
         /\ gi'[t] = 0
         /\ gpc'[t] = (IF spinCount = 0 THEN "g_lock" ELSE "hspin")
         /\ gpc'[t] = "hspin" => gn'[t] = spinCount
    /\ gpc[t] = "hspin" =>
         /\ gi[t] < gn[t]
         /\ gn[t] <= SpinCount
         /\ gpc'[t] = "hspin" =>
                (gn'[t] = gn[t] /\ gi'[t] - gi[t] \in {0, 1})
         /\ gpc'[t] # "hspin" =>
                \/ (ready /\ GLeaves(t, "Wait"))
                \/ (~ready /\ gi[t] + 1 = gn[t] /\ gpc'[t] = "g_lock")
    /\ (gpc'[t] = "g_parked" /\ gpc[t] # "g_parked") => gmtx = t
    /\ (gpc[t] = "g_parked" /\ ready) =>
         (\E u \in GateThreads : gpc[u] = "sig_notify" /\ gmtx = u)

\* C24: a hybrid gate's Wait reads spinCount once, at entry; its spin phase
\* makes at most that many reads of ready (none when it is 0) and ends by a
\* return on ready or, the reads used up, at the mutex; a waiter parks
\* holding the mutex; no waiter stays parked on a ready gate without a
\* notification on its way; and a waiter of a ready gate returns (unless a
\* Reset makes the gate not ready first).
C24_HybridWait ==
    /\ [][(variant \in Hybrids) =>
             (\A t \in GateThreads : HybridWaitStep(t))]_vars
    /\ \A t \in GateThreads :
         (variant \in Hybrids /\ InWait(t) /\ ready) ~> (~InWait(t) \/ ~ready)

\* On a hybrid latch whose spinCount was set to 1, a waiter has used up its
\* one read and holds the mutex, about to park, while a Signal is waiting for
\* the mutex to store true.
C24_Witness ==
    /\ variant = "HybridLatch"
    /\ spinCount = 1
    /\ gpc["g1"] = "g_park"
    /\ gmtx = "g1"
    /\ gpc["g2"] = "sig_store"
    /\ ~ready

\* C25: on every Barrier class a thread that is inside Wait when a Signal
\* stores true is released by that Signal: it returns from Wait, also when a
\* Reset is called after the Signal has returned and before the waiter has
\* read ready again.
C25_ReleasedDespiteReset ==
    \A t \in GateThreads :
        (/\ variant \in Barriers
         /\ InWait(t)
         /\ ready
         /\ glast.what = "Signal" /\ glast.how = "returned"
         /\ \A u \in GateThreads : gop[u] # "Reset") ~> ~InWait(t)

\* C26: no failure record is discarded: a step that takes out of collected
\* records whose Done calls have brought the count to 0, in an epoch the
\* owner has added work and waited in, delivers exactly them in the
\* aggregated failure it raises (or moves
\* them to the instance Transfer builds); so a record attached after a
\* WaitFor timed out is not lost when the owner calls Reset.
C26_NoRecordDiscarded ==
    [][(/\ waiting
        /\ count = 0
        /\ def_count > 0
        /\ collected # <<>>
        /\ BagLeq(BagOf(collected), decremented)
        /\ collected' # collected) =>
          \/ \E e \in Records : collected' = Append(collected, e)
          \/ /\ collected' = <<>>
             /\ delivered' = collected
             /\ last'.how = "aggregate"
          \/ /\ collected' = <<>>
             /\ new_wg'.collected = collected]_vars

\* C27: once a Done has attached a failure record in an epoch, every call of
\* HasFinishedSuccessfully() made while no thread is writing collected
\* returns false, until the next successful Reset; so also after Wait or
\* WaitFor has raised the aggregated failure.
C27_FailureStaysVisible ==
    [][\A t \in Observers :
          (/\ Calls(t, "HasFinishedSuccessfully")
           /\ attached # ZeroBag
           /\ \A u \in Threads : ~Writing(u)) => last'.how = "false"]_vars

Violations == {"ownership", "useafterwait", "reuse", "notquiescent"}

\* This step is operation `name`, called by thread t, failing with error r.
Fails(t, name, r) ==
    /\ pc[t] = "idle" \/ op[t] = name
    /\ last' # last \/ calls' # calls
    /\ last' = Event(t, name, r)

\* C28: an operation that fails changes nothing: the step in which Add,
\* Wait, WaitFor, Reset or Transfer fails with the ownership, use-after-wait,
\* reuse or not-quiescent violation leaves count, waiting, collected, the
\* snapshot, the mutex and every thread where they were, and so does the call
\* of a Reset that fails later, at its check; each error is raised for its
\* own operations only.
C28_FailureChangesNothing ==
    [][\A t \in {Owner, Outsider} :
        /\ \A name \in {"Add", "Wait", "WaitFor", "Reset", "Transfer"} :
            \A r \in Violations :
                Fails(t, name, r) =>
                    /\ UNCHANGED <<wgvars, mtx, ex, delivered>>
                    /\ pc' = [pc EXCEPT ![t] = "idle"]
                    /\ r = "ownership" => (t # Owner /\ name # "Transfer")
                    /\ r = "useafterwait" =>
                           (waiting /\ name \in {"Add", "Transfer"})
                    /\ r = "reuse" => (waiting /\ name \in WaitOps)
                    /\ r = "notquiescent" =>
                           (waiting /\ count # 0 /\ name = "Reset")
        /\ Calls(t, "Reset") => UNCHANGED <<wgvars, mtx, ex, delivered>>]_vars

\* The owner's Reset has been refused as not quiescent: the WaitFor before it
\* timed out and the count is still not 0.
C28_Witness ==
    /\ last = Event(Owner, "Reset", "notquiescent")
    /\ waiting
    /\ count # 0
    /\ pc[Owner] = "idle"
    /\ mtx = "free"

(***************************************************************************)
(* Properties of Task                                                      *)
(***************************************************************************)
\* C29: a Task calls Done on its WaitGroup exactly once on every path: when
\* its lambda has ended, by the return or by a throw of the callable, and no
\* Abandon of it is running, one Done call has been made for it.
C29_DoneOncePerTask ==
    \A k \in Tasks :
        (taskpc[k] = "over" /\ abpc[k] \in {"none", "over"}) => taskdones[k] = 1

====
